---- MODULE Spec2Model ----
(***************************************************************************)
(* Model of src/main.py: the dashboard script of the polar-plant EC study. *)
(*                                                                         *)
(* Strings that the script compares, normalizes or cuts (file names,       *)
(* school names, sheet names) are sequences of Unicode code points, so     *)
(* that NFC normalization and str.replace are computed, not assumed.       *)
(* Column names are only ever compared for equality, and are ASCII tags:   *)
(*   "weight_g"     the fresh-weight column (U+C0DD U+C911 U+B7C9 "(g)")   *)
(*   "leaf_count"   the leaf-count column                                  *)
(*   "shoot_len_mm" the shoot-length column                                *)
(*   "school"       the label column added at line 317 (U+D559 U+AD50)     *)
(***************************************************************************)
EXTENDS Integers, Sequences, FiniteSets, TLC

VARIABLES
    dirState,       \* what Path("data") is: "absent", "notdir" or "dir"
    listing,        \* data/ as iterdir() enumerates it: a sequence of names
    pc,             \* position of the script
    i,              \* load_env_data: index of the target the loop is at
    env_files,      \* load_env_data: the dict being built (line 53)
    env_data,       \* module level, line 93
    growth_data,    \* module level, line 94
    errors,         \* the st.error messages shown so far
    exc,            \* the exception that ended the script, or NoException
    school_option,  \* the sidebar choice, line 120
    summary_rows,   \* line 146
    avg_env,        \* line 178
    ec_weight,      \* line 284
    dist_df,        \* line 314-320
    target_name,    \* find_file_by_name: its argument (lookup specification)
    file_path       \* find_file_by_name: its result   (lookup specification)

vars == <<dirState, listing, pc, i, env_files, env_data, growth_data, errors,
          exc, school_option, summary_rows, avg_env, ec_weight, dist_df,
          target_name, file_path>>

\* Python's None where a number or a text may stand (dict.get's default,
\* NaN's place in a widened row), and where a path may stand (line 41).
None == "None"
NoPath == <<>>

-----------------------------------------------------------------------------
(* Bounds of the model.                                                    *)

\* Largest number of directory entries stored in decomposed (NFD) form.
MaxDecomposed == 1
\* Largest number of sheets of the growth workbook.
MaxSheets == 2
\* Largest number of rows of one growth table (row-count specification).
MaxRows == 2
\* Largest number of directory entries (lookup specification).
MaxEntries == 3

-----------------------------------------------------------------------------
(* unicodedata.normalize("NFC", .) on Hangul and ASCII text: canonical     *)
(* decomposition, then canonical composition (Unicode 3.12, Conjoining     *)
(* Jamo Behavior). No character of these names carries a combining class,  *)
(* so canonical reordering changes nothing.                                *)

SBase == 44032
LBase == 4352
VBase == 4449
TBase == 4519
LCount == 19
VCount == 21
TCount == 28

IsSyllable(c) == c >= SBase /\ c < SBase + LCount * VCount * TCount
IsL(c) == c >= LBase /\ c < LBase + LCount
IsV(c) == c >= VBase /\ c < VBase + VCount
IsT(c) == c > TBase /\ c < TBase + TCount
IsLV(c) == IsSyllable(c) /\ (c - SBase) % TCount = 0

\* Canonical decomposition of one code point.
DecomposeChar(c) ==
    IF IsSyllable(c)
    THEN LET s == c - SBase
             l == LBase + (s \div (VCount * TCount))
             v == VBase + ((s % (VCount * TCount)) \div TCount)
             t == TBase + (s % TCount)
         IN IF t = TBase THEN <<l, v>> ELSE <<l, v, t>>
    ELSE <<c>>

RECURSIVE Decompose(_)
Decompose(s) ==
    IF s = <<>> THEN <<>> ELSE DecomposeChar(Head(s)) \o Decompose(Tail(s))

\* Canonical composition: acc is the composed prefix, s what is left.
RECURSIVE ComposeFrom(_, _)
ComposeFrom(acc, s) ==
    IF s = <<>> THEN acc
    ELSE LET c == Head(s)
             n == Len(acc)
             last == IF n = 0 THEN 0 ELSE acc[n]
         IN IF n > 0 /\ IsL(last) /\ IsV(c)
            THEN ComposeFrom(
                   [acc EXCEPT ![n] = SBase + ((last - LBase) * VCount + (c - VBase)) * TCount],
                   Tail(s))
            ELSE IF n > 0 /\ IsLV(last) /\ IsT(c)
            THEN ComposeFrom([acc EXCEPT ![n] = last + (c - TBase)], Tail(s))
            ELSE ComposeFrom(Append(acc, c), Tail(s))

NFC(s) == ComposeFrom(<<>>, Decompose(s))
NFD(s) == Decompose(s)

\* A normalization that leaves decomposed text decomposed.
normalize_name_identity(name) == name

\* line 32-34
normalize_name(name) == NFC(name)

\* line 38-41: the loop over directory.iterdir(), from entry k on.
RECURSIVE find_from(_, _, _)
find_from(directory, target_nfc, k) ==
    IF k > Len(directory) THEN NoPath
    ELSE IF normalize_name(directory[k]) = target_nfc THEN directory[k]
    ELSE find_from(directory, target_nfc, k + 1)

\* line 36-41, on a directory that exists and can be listed.
find_file_by_name(directory, tname) ==
    find_from(directory, normalize_name(tname), 1)

-----------------------------------------------------------------------------
(* The names of the script, as code points.                                *)

SongDo  == <<49569, 46020, 44256>>
HaNeul  == <<54616, 45720, 44256>>
ARa     == <<50500, 46972, 44256>>
DongSan == <<46041, 49328, 44256>>
\* "_" U+D658 U+ACBD U+B370 U+C774 U+D130 ".csv"
EnvSuffix == <<95, 54872, 44221, 45936, 51060, 53552, 46, 99, 115, 118>>
\* line 78
XlsxName == <<52, 44060, 44368, 95, 49373, 50977, 44208, 44284, 45936,
              51060, 53552, 46, 120, 108, 115, 120>>
\* line 122: the first option of the select box
All == <<51204, 52404>>
\* names that the script does not ask for
Readme == <<82, 69, 65, 68, 77, 69, 46, 109, 100>>
Sheet1 == <<83, 104, 101, 101, 116, 49>>

\* line 54-59
targets == <<SongDo \o EnvSuffix, HaNeul \o EnvSuffix,
             ARa \o EnvSuffix, DongSan \o EnvSuffix>>

-----------------------------------------------------------------------------
(* Python dicts keep insertion order: a dict is a sequence of [k, v].      *)

EmptyDict == <<>>
Keys(d) == [n \in 1..Len(d) |-> d[n].k]
KeySet(d) == {d[n].k : n \in 1..Len(d)}
Has(d, key) == key \in KeySet(d)
\* d[key], for a key of d
Get(d, key) == d[CHOOSE n \in 1..Len(d) : d[n].k = key].v
\* d.get(key, default)
GetOr(d, key, default) == IF Has(d, key) THEN Get(d, key) ELSE default
\* d[key] = value
Put(d, key, value) ==
    IF Has(d, key)
    THEN [n \in 1..Len(d) |-> IF d[n].k = key THEN [k |-> key, v |-> value] ELSE d[n]]
    ELSE Append(d, [k |-> key, v |-> value])

\* line 102-107
ec_conditions == << [k |-> SongDo, v |-> "1.0"], [k |-> HaNeul, v |-> "2.0"],
                    [k |-> ARa, v |-> "4.0"], [k |-> DongSan, v |-> "8.0"] >>

\* line 109-114
school_colors == << [k |-> SongDo, v |-> "#1f77b4"], [k |-> HaNeul, v |-> "#2ca02c"],
                    [k |-> ARa, v |-> "#ff7f0e"], [k |-> DongSan, v |-> "#d62728"] >>

\* str.startswith
StartsWith(s, sub) == Len(s) >= Len(sub) /\ SubSeq(s, 1, Len(sub)) = sub

\* str.replace(old, new), old not empty: every occurrence, left to right.
RECURSIVE Replace(_, _, _)
Replace(s, old, new) ==
    IF s = <<>> THEN <<>>
    ELSE IF StartsWith(s, old)
    THEN new \o Replace(SubSeq(s, Len(old) + 1, Len(s)), old, new)
    ELSE <<Head(s)>> \o Replace(Tail(s), old, new)

\* A key that keeps the whole file name.
SchoolOfWhole(t) == t

\* line 69
SchoolOf(t) == Replace(t, EnvSuffix, <<>>)

-----------------------------------------------------------------------------
(* Tables (DataFrames): the set of columns and the rows in order; a row    *)
(* maps each column to its value.                                          *)

Table(cols, rows) == [cols |-> cols, rows |-> rows]
HasCol(df, c) == c \in df.cols
\* len(df)
NRows(df) == Len(df.rows)

EnvCols == {"time", "temperature", "humidity", "ph", "ec"}
GrowthCols == {"weight_g", "leaf_count", "shoot_len_mm"}


\* df[c] = value, a new column or an old one
SetCol(df, c, value) ==
    Table(df.cols \cup {c},
          [n \in 1..Len(df.rows) |->
              [x \in df.cols \cup {c} |-> IF x = c THEN value ELSE df.rows[n][x]]])

\* A concatenation that keeps one copy of equal rows.
RECURSIVE Dedup(_)
Dedup(rows) ==
    IF rows = <<>> THEN <<>>
    ELSE LET rest == Dedup(SubSeq(rows, 1, Len(rows) - 1))
             r == rows[Len(rows)]
         IN IF \E n \in 1..Len(rest) : rest[n] = r THEN rest ELSE Append(rest, r)

RECURSIVE ConcatFrom(_, _)
\* pd.concat of the tables dfs[k..]: the union of the columns, every row
\* kept, NaN (None) where a table lacks a column.
ConcatFrom(dfs, k) ==
    IF k > Len(dfs) THEN Table({}, <<>>)
    ELSE LET rest == ConcatFrom(dfs, k + 1)
             cols == dfs[k].cols \cup rest.cols
             Widen(r, own) == [x \in cols |-> IF x \in own THEN r[x] ELSE None]
         IN Table(cols,
                  [n \in 1..Len(dfs[k].rows) |-> Widen(dfs[k].rows[n], dfs[k].cols)]
                  \o [n \in 1..Len(rest.rows) |-> Widen(rest.rows[n], rest.cols)])

concat_dedup(dfs) ==
    LET all == ConcatFrom(dfs, 1) IN Table(all.cols, Dedup(all.rows))

\* pd.concat(dfs), dfs a non-empty list (lines 164, 165, 268, 320)
concat(dfs) == ConcatFrom(dfs, 1)

\* pd.to_datetime of one value of the CSV
to_datetime(x) == [ts |-> x]

\* df[c] = pd.to_datetime(df[c]) for a column of df
ToDatetimeCol(df, c) ==
    Table(df.cols, [n \in 1..Len(df.rows) |-> [df.rows[n] EXCEPT ![c] = to_datetime(@)]])

-----------------------------------------------------------------------------
(* What the files hold. A CSV either parses to a table or makes read_csv   *)
(* raise; a workbook either opens with its sheets or makes ExcelFile raise.*)

EnvRow == [c \in EnvCols |-> IF c = "time" THEN "2024-05-01 00:00" ELSE 1]
NoTimeCols == EnvCols \ {"time"}

CsvOk       == [parses |-> TRUE, timeok |-> TRUE,  df |-> Table(EnvCols, <<EnvRow>>)]
CsvNoTime   == [parses |-> TRUE, timeok |-> TRUE,
                df |-> Table(NoTimeCols, <<[c \in NoTimeCols |-> 1]>>)]
CsvBadTime  == [parses |-> TRUE, timeok |-> FALSE,
                df |-> Table(EnvCols, <<[EnvRow EXCEPT !["time"] = "n/a"]>>)]
CsvMalformed == [parses |-> FALSE, timeok |-> FALSE, df |-> Table({}, <<>>)]
CsvContents == {CsvOk, CsvNoTime, CsvBadTime, CsvMalformed}

\* A growth sheet of n plants that measure alike: n equal rows, the case
\* in which a concatenation could lose a row as a duplicate.
GrowthTable(n) == Table(GrowthCols, [r \in 1..n |-> [c \in GrowthCols |-> 1]])
\* A sheet with no cell at all: read_excel gives a table without columns.
BlankSheet == Table({}, <<>>)

SheetNames == <<SongDo, HaNeul, Sheet1>>
\* The sheet names of a workbook: in the order of SheetNames, at least one
\* (a workbook has a sheet), at most MaxSheets.
SheetLists ==
    { [n \in 1..Len(ix) |-> SheetNames[ix[n]]] :
        ix \in { s \in UNION {[1..m -> 1..Len(SheetNames)] : m \in 1..MaxSheets} :
                   \A a, b \in 1..Len(s) : a < b => s[a] < s[b] } }
SheetTables == {BlankSheet, GrowthTable(0), GrowthTable(1)}
Workbooks ==
    { [opens |-> FALSE, sheets |-> <<>>] } \cup
    UNION { { [opens |-> TRUE,
               sheets |-> [n \in 1..Len(names) |-> [k |-> names[n], v |-> tabs[n]]]] :
                 tabs \in [1..Len(names) -> SheetTables] } : names \in SheetLists }

\* The names the script asks the directory for (lines 55-58 and 78).
Wanted == targets \o <<XlsxName>>

\* How each wanted name is stored: not at all, precomposed or decomposed.
Layouts ==
    { f \in [1..Len(Wanted) -> {"no", "nfc", "nfd"}] :
        Cardinality({n \in 1..Len(Wanted) : f[n] = "nfd"}) <= MaxDecomposed }

RECURSIVE StoredFrom(_, _)
StoredFrom(f, n) ==
    IF n > Len(Wanted) THEN <<>>
    ELSE (CASE f[n] = "no"  -> <<>>
            [] f[n] = "nfc" -> <<Wanted[n]>>
            [] f[n] = "nfd" -> <<NFD(Wanted[n])>>) \o StoredFrom(f, n + 1)

\* A listing of data/ that is not empty: an unrelated file, then the
\* stored names.
ListingOf(f) == <<Readme>> \o StoredFrom(f, 1)

\* The listings of an existing data/: the empty one, the one of unrelated
\* files only (nothing stored), and those with some wanted names.
Listings == {<<>>} \cup {ListingOf(f) : f \in Layouts}

-----------------------------------------------------------------------------
(* The script.                                                             *)

\* An exception: its type, the line that raised it, the function running.
Raise(type, line, within) == [type |-> type, line |-> line, within |-> within]
NoException == Raise("none", 0, "")
\* a table variable not assigned yet
NoTable == Table({}, <<>>)

\* The values of the variables before the script assigns them.
NotStarted ==
    /\ i = 0
    /\ env_files = EmptyDict
    /\ env_data = EmptyDict
    /\ growth_data = EmptyDict
    /\ errors = <<>>
    /\ exc = NoException
    /\ school_option = <<>>
    /\ summary_rows = <<>>
    /\ avg_env = <<>>
    /\ ec_weight = <<>>
    /\ dist_df = NoTable

Init ==
    /\ dirState \in {"absent", "notdir", "dir"}
    /\ listing \in IF dirState = "dir"
                   THEN Listings
                   ELSE {<<>>}
    /\ pc = "load_env"
    /\ NotStarted
    /\ target_name = <<>>
    /\ file_path = NoPath

\* The script ends with an uncaught exception.
Crash(e) ==
    /\ pc' = "raised"
    /\ exc' = e

\* A load_env_data that returns {} for a missing directory without st.error.
LoadEnvEnterSilent ==
    /\ pc = "load_env"
    /\ IF dirState = "absent"
       THEN /\ env_data' = EmptyDict
            /\ pc' = "load_growth"
            /\ UNCHANGED <<i, env_files>>
       ELSE /\ env_files' = EmptyDict
            /\ i' = 1
            /\ pc' = "env_loop"
            /\ UNCHANGED env_data
    /\ UNCHANGED <<dirState, listing, growth_data, errors, exc, school_option,
                   summary_rows, avg_env, ec_weight, dist_df, target_name, file_path>>

\* line 93, 47-53: the call of load_env_data up to its loop.
LoadEnvEnter ==
    /\ pc = "load_env"
    /\ IF dirState = "absent"
       THEN /\ errors' = Append(errors, [msg |-> "no_data_dir"])
            /\ env_data' = EmptyDict
            /\ pc' = "load_growth"
            /\ UNCHANGED <<i, env_files>>
       ELSE /\ env_files' = EmptyDict
            /\ i' = 1
            /\ pc' = "env_loop"
            /\ UNCHANGED <<errors, env_data>>
    /\ UNCHANGED <<dirState, listing, growth_data, exc, school_option, summary_rows,
                   avg_env, ec_weight, dist_df, target_name, file_path>>

\* line 62-70: one iteration of the loop; content is what the file holds.
LoadEnvStep(content) ==
    /\ pc = "env_loop"
    /\ i <= Len(targets)
    /\ LET t == targets[i]
           found == find_file_by_name(listing, t)
       IN /\ target_name' = t
          /\ IF dirState = "notdir"
             THEN \* line 38: iterdir() of something that is no directory
                  /\ Crash(Raise("NotADirectoryError", 38, "load_env_data"))
                  /\ UNCHANGED <<i, env_files, errors, file_path>>
             ELSE /\ file_path' = found
                  /\ IF found = NoPath
                     THEN /\ errors' = Append(errors, [msg |-> "env_file_missing", t |-> t])
                          /\ i' = i + 1
                          /\ UNCHANGED <<pc, exc, env_files>>
                     ELSE IF ~content.parses
                     THEN /\ Crash(Raise("ParserError", 67, "load_env_data"))
                          /\ UNCHANGED <<i, env_files, errors>>
                     ELSE IF ~HasCol(content.df, "time")
                     THEN /\ Crash(Raise("KeyError", 68, "load_env_data"))
                          /\ UNCHANGED <<i, env_files, errors>>
                     ELSE IF ~content.timeok
                     THEN /\ Crash(Raise("ValueError", 68, "load_env_data"))
                          /\ UNCHANGED <<i, env_files, errors>>
                     ELSE /\ env_files' = Put(env_files, SchoolOf(t),
                                              ToDatetimeCol(content.df, "time"))
                          /\ i' = i + 1
                          /\ UNCHANGED <<pc, exc, errors>>
    /\ UNCHANGED <<dirState, listing, env_data, growth_data, school_option,
                   summary_rows, avg_env, ec_weight, dist_df>>

\* line 72, 93
LoadEnvReturn ==
    /\ pc = "env_loop"
    /\ i > Len(targets)
    /\ env_data' = env_files
    /\ pc' = "load_growth"
    /\ UNCHANGED <<dirState, listing, i, env_files, growth_data, errors, exc,
                   school_option, summary_rows, avg_env, ec_weight, dist_df,
                   target_name, file_path>>

\* line 94, 76-90: load_growth_data; wb is what the workbook holds.
LoadGrowth(wb) ==
    /\ pc = "load_growth"
    /\ target_name' = XlsxName
    /\ IF dirState # "dir"
       THEN \* line 38: iterdir() of a directory that does not exist
            /\ Crash(Raise("FileNotFoundError", 38, "load_growth_data"))
            /\ UNCHANGED <<growth_data, errors, file_path>>
       ELSE LET xlsx_path == find_file_by_name(listing, XlsxName)
            IN /\ file_path' = xlsx_path
               /\ IF xlsx_path = NoPath
                  THEN /\ errors' = Append(errors, [msg |-> "no_xlsx"])
                       /\ growth_data' = EmptyDict
                       /\ pc' = "gate"
                       /\ UNCHANGED exc
                  ELSE IF ~wb.opens
                  THEN /\ Crash(Raise("BadZipFile", 84, "load_growth_data"))
                       /\ UNCHANGED <<growth_data, errors>>
                  ELSE /\ growth_data' = wb.sheets
                       /\ pc' = "gate"
                       /\ UNCHANGED <<errors, exc>>
    /\ UNCHANGED <<dirState, listing, i, env_files, env_data, school_option,
                   summary_rows, avg_env, ec_weight, dist_df>>

\* line 96-97
Gate ==
    /\ pc = "gate"
    /\ pc' = IF env_data = EmptyDict \/ growth_data = EmptyDict THEN "stopped" ELSE "sidebar"
    /\ UNCHANGED <<dirState, listing, i, env_files, env_data, growth_data, errors, exc,
                   school_option, summary_rows, avg_env, ec_weight, dist_df,
                   target_name, file_path>>

\* line 122: the options of the select box
SchoolOptions == <<All>> \o Keys(ec_conditions)

\* line 119-123
Sidebar(choice) ==
    /\ pc = "sidebar"
    /\ school_option' = SchoolOptions[choice]
    /\ pc' = "tab1"
    /\ UNCHANGED <<dirState, listing, i, env_files, env_data, growth_data, errors, exc,
                   summary_rows, avg_env, ec_weight, dist_df, target_name, file_path>>

\* A loop whose iteration n raises at line faults[n], or not if that is 0:
\* the line at which the loop raises, or 0.
FirstFault(faults) ==
    IF \E n \in 1..Len(faults) : faults[n] # 0
    THEN faults[CHOOSE n \in 1..Len(faults) :
                   faults[n] # 0 /\ \A m \in 1..(n - 1) : faults[m] = 0]
    ELSE 0

\* [df for df in d.values()]
Values(d) == [n \in 1..Len(d) |-> d[n].v]

\* line 146-156
SummaryRows(gd) ==
    [n \in 1..Len(gd) |->
        [school |-> gd[n].k,
         ec_target |-> GetOr(ec_conditions, gd[n].k, None),
         count |-> NRows(gd[n].v),
         color |-> GetOr(school_colors, gd[n].k, None)]]

\* line 135-170: the overview tab
Overview ==
    /\ pc = "tab1"
    /\ summary_rows' = SummaryRows(growth_data)
    /\ LET all == concat(Values(env_data))
       IN IF ~HasCol(all, "temperature") THEN Crash(Raise("KeyError", 164, "module"))
          ELSE IF ~HasCol(all, "humidity") THEN Crash(Raise("KeyError", 165, "module"))
          ELSE pc' = "tab2_avg" /\ UNCHANGED exc
    /\ UNCHANGED <<dirState, listing, i, env_files, env_data, growth_data, errors,
                   school_option, avg_env, ec_weight, dist_df, target_name, file_path>>

\* The line of 182-186 that raises KeyError for the item (school, df), or 0.
AvgEnvFault(school, df) ==
    IF ~HasCol(df, "temperature") THEN 182
    ELSE IF ~HasCol(df, "humidity") THEN 183
    ELSE IF ~HasCol(df, "ph") THEN 184
    ELSE IF ~HasCol(df, "ec") THEN 185
    ELSE IF ~Has(ec_conditions, school) THEN 186
    ELSE 0

\* line 176-224: the averages of the environment tab
AvgEnv ==
    /\ pc = "tab2_avg"
    /\ LET bad == FirstFault([n \in 1..Len(env_data) |->
                                 AvgEnvFault(env_data[n].k, env_data[n].v)])
       IN IF bad # 0
          THEN /\ Crash(Raise("KeyError", bad, "module"))
               /\ UNCHANGED avg_env
          ELSE /\ avg_env' = [n \in 1..Len(env_data) |->
                                [school |-> env_data[n].k,
                                 target_ec |-> Get(ec_conditions, env_data[n].k)]]
               /\ pc' = "tab2_series"
               /\ UNCHANGED exc
    /\ UNCHANGED <<dirState, listing, i, env_files, env_data, growth_data, errors,
                   school_option, summary_rows, ec_weight, dist_df, target_name, file_path>>

\* line 228-230
target_schools ==
    IF school_option = All THEN Keys(env_data) ELSE <<school_option>>

\* The line of 233-250 that raises KeyError for the school, or 0.
SeriesFault(school) ==
    IF ~Has(env_data, school) THEN 233
    ELSE LET df == Get(env_data, school)
         IN IF ~HasCol(df, "time") \/ ~HasCol(df, "temperature") THEN 238
            ELSE IF ~HasCol(df, "humidity") THEN 242
            ELSE IF ~HasCol(df, "ec") THEN 246
            ELSE IF ~Has(ec_conditions, school) THEN 250
            ELSE 0

\* line 226-276: the time series of the environment tab and the CSV export
TimeSeries ==
    /\ pc = "tab2_series"
    /\ LET bad == FirstFault([n \in 1..Len(target_schools) |->
                                 SeriesFault(target_schools[n])])
       IN IF bad # 0
          THEN Crash(Raise("KeyError", bad, "module"))
          ELSE pc' = "tab3_ec" /\ UNCHANGED exc
    /\ UNCHANGED <<dirState, listing, i, env_files, env_data, growth_data, errors,
                   school_option, summary_rows, avg_env, ec_weight, dist_df,
                   target_name, file_path>>

\* The line of 288-289 that raises KeyError for the item (school, df), or 0.
EcWeightFault(school, df) ==
    IF ~Has(ec_conditions, school) THEN 288
    ELSE IF ~HasCol(df, "weight_g") THEN 289
    ELSE 0

\* line 284-291, when no line of it raises
EcWeightRows(gd) ==
    [n \in 1..Len(gd) |->
        [school |-> gd[n].k,
         EC |-> Get(ec_conditions, gd[n].k),
         count |-> NRows(gd[n].v)]]

\* line 281-311: the mean weights of the growth tab. The mean of no row is
\* NaN; with nothing but NaN, idxmax raises ValueError or gives NaN, which
\* .loc then rejects with KeyError, according to the pandas version.
EcWeight(allnan) ==
    /\ pc = "tab3_ec"
    /\ LET bad == FirstFault([n \in 1..Len(growth_data) |->
                                 EcWeightFault(growth_data[n].k, growth_data[n].v)])
       IN IF bad # 0
          THEN /\ Crash(Raise("KeyError", bad, "module"))
               /\ UNCHANGED ec_weight
          ELSE /\ ec_weight' = EcWeightRows(growth_data)
               /\ IF \A n \in 1..Len(growth_data) : NRows(growth_data[n].v) = 0
                  THEN Crash(Raise(allnan, 294, "module"))
                  ELSE pc' = "tab3_dist" /\ UNCHANGED exc
    /\ UNCHANGED <<dirState, listing, i, env_files, env_data, growth_data, errors,
                   school_option, summary_rows, avg_env, dist_df, target_name, file_path>>

\* A loop that labels the tables of growth_data themselves, not copies.
LabelFramesInPlace(gd) ==
    LET lab == [n \in 1..Len(gd) |-> SetCol(gd[n].v, "school", gd[n].k)]
    IN [frames |-> lab,
        growth_data |-> [n \in 1..Len(gd) |-> [k |-> gd[n].k, v |-> lab[n]]]]

\* line 314-318: the list of labelled copies, and growth_data after the loop
LabelFrames(gd) ==
    [frames |-> [n \in 1..Len(gd) |-> SetCol(gd[n].v, "school", gd[n].k)],
     growth_data |-> gd]

\* line 313-377: the distribution and correlation charts and the XLSX export
DistDf ==
    /\ pc = "tab3_dist"
    /\ LET out == LabelFrames(growth_data)
           all == concat(out.frames)
       IN /\ growth_data' = out.growth_data
          /\ dist_df' = all
          /\ IF ~HasCol(all, "leaf_count") THEN Crash(Raise("ValueError", 337, "module"))
             ELSE IF ~HasCol(all, "shoot_len_mm") THEN Crash(Raise("ValueError", 349, "module"))
             ELSE pc' = "done" /\ UNCHANGED exc
    /\ UNCHANGED <<dirState, listing, i, env_files, env_data, errors, school_option,
                   summary_rows, avg_env, ec_weight, target_name, file_path>>

Next ==
    \/ LoadEnvEnter
    \/ \E content \in CsvContents : LoadEnvStep(content)
    \/ LoadEnvReturn
    \/ \E wb \in Workbooks : LoadGrowth(wb)
    \/ Gate
    \/ \E choice \in 1..Len(SchoolOptions) : Sidebar(choice)
    \/ Overview
    \/ AvgEnv
    \/ TimeSeries
    \/ \E allnan \in {"ValueError", "KeyError"} : EcWeight(allnan)
    \/ DistDf

Spec == Init /\ [][Next]_vars

-----------------------------------------------------------------------------
(* The lookup alone: find_file_by_name on listings in which several        *)
(* entries may normalize to the same name, in any enumeration order.       *)

\* A syllable with a final consonant, stored as the syllable without it
\* followed by the consonant as a conjoining jamo; the rest precomposed.
HalfDecomposed(s) ==
    LET c == Head(s)
        t == (c - SBase) % TCount
    IN IF IsSyllable(c) /\ t # 0 THEN <<c - t, TBase + t>> \o Tail(s) ELSE s

FindNames == {targets[1], NFD(targets[1]), HalfDecomposed(targets[1]),
              targets[2], Readme}
FindTargets == {targets[1], NFD(targets[1]), targets[2], targets[3]}

\* The listings of at most MaxEntries entries, no name twice.
FindListings ==
    { d \in UNION {[1..m -> FindNames] : m \in 0..MaxEntries} :
        \A a, b \in 1..Len(d) : a # b => d[a] # d[b] }

InitFind ==
    /\ dirState = "dir"
    /\ listing \in FindListings
    /\ target_name \in FindTargets
    /\ file_path = NoPath
    /\ pc = "find"
    /\ NotStarted

\* line 36-41: one call find_file_by_name(directory, target_name)
FindFile ==
    /\ pc = "find"
    /\ file_path' = find_file_by_name(listing, target_name)
    /\ pc' = "found"
    /\ UNCHANGED <<dirState, listing, i, env_files, env_data, growth_data, errors, exc,
                   school_option, summary_rows, avg_env, ec_weight, dist_df, target_name>>

SpecFind == InitFind /\ [][FindFile]_vars

-----------------------------------------------------------------------------
(* The combined growth table alone: the step DistDf from the states in     *)
(* which the script reaches it, with up to MaxSheets tables of up to       *)
(* MaxRows rows.                                                           *)

\* env_data when the four files are there and parse
EnvLoaded ==
    [n \in 1..Len(targets) |->
        [k |-> SchoolOf(targets[n]), v |-> ToDatetimeCol(CsvOk.df, "time")]]

\* The growth_data with which line 313 is reached: every key a key of
\* ec_conditions (line 288), some table with a row (line 294).
DistInputs ==
    { gd \in UNION { [1..m -> [k : KeySet(ec_conditions),
                               v : {GrowthTable(r) : r \in 0..MaxRows}]] :
                       m \in 1..MaxSheets } :
        /\ \A a, b \in 1..Len(gd) : a # b => gd[a].k # gd[b].k
        /\ \E a \in 1..Len(gd) : NRows(gd[a].v) > 0 }

InitDist ==
    /\ dirState = "dir"
    /\ listing = ListingOf([n \in 1..Len(Wanted) |-> "nfc"])
    /\ pc = "tab3_dist"
    /\ i = Len(targets) + 1
    /\ env_files = EnvLoaded
    /\ env_data = EnvLoaded
    /\ growth_data \in DistInputs
    /\ errors = <<>>
    /\ exc = NoException
    /\ school_option = All
    /\ summary_rows = SummaryRows(growth_data)
    /\ avg_env = [n \in 1..Len(env_data) |->
                    [school |-> env_data[n].k, target_ec |-> Get(ec_conditions, env_data[n].k)]]
    /\ ec_weight = EcWeightRows(growth_data)
    /\ dist_df = NoTable
    /\ target_name = XlsxName
    /\ file_path = XlsxName

SpecDist == InitDist /\ [][DistDf]_vars

-----------------------------------------------------------------------------
(* Properties.                                                             *)

\* The four school names, the logical keys load_env_data is asked for.
Schools == <<SongDo, HaNeul, ARa, DongSan>>

\* Some entry of data/ has the canonical composed form of name t.
Stored(t) == \E n \in 1..Len(listing) : NFC(listing[n]) = NFC(t)

\* The targets that have a file in data/.
StoredTargets == {n \in 1..Len(targets) : dirState = "dir" /\ Stored(targets[n])}

\* load_env_data has just returned: env_data holds its result (line 93).
EnvLoaderReturned == pc = "load_growth"

\* C1 as claimed: whenever load_env_data returns, the key set of its result
\* is exactly the set of the four requested school names.
C1_KeySetIsRequested ==
    EnvLoaderReturned => KeySet(env_data) = {Schools[n] : n \in 1..Len(Schools)}

\* C1 as amended: whenever load_env_data returns, the key set of its result
\* is exactly the set of the requested school names whose file is in the
\* directory: no extra key, and no key for a file that is missing.
C1_KeySetIsStored ==
    EnvLoaderReturned => KeySet(env_data) = {Schools[n] : n \in StoredTargets}

\* C1's case: load_env_data returned from a directory that holds some of
\* the requested files and lacks others.
C1_PartialWitness ==
    /\ EnvLoaderReturned
    /\ Cardinality(StoredTargets) = 3
    /\ Cardinality(KeySet(env_data)) = 3

\* C2 as claimed: a file that is found and does not parse (read_csv fails,
\* or the "time" column is missing or unreadable) never raises out of
\* load_env_data.
C2_ParseFailureCaught ==
    ~(pc = "raised" /\ exc.within = "load_env_data" /\ exc.line \in {67, 68})

\* The entries of the listing that normalize to the name the lookup is for.
Matches == {n \in 1..Len(listing) : NFC(listing[n]) = NFC(target_name)}

\* C3: find_file_by_name returns the first entry, in enumeration order,
\* whose NFC form equals the NFC form of the target, and None exactly when
\* there is no such entry.
C3_FirstNormalizedMatch ==
    pc = "found" =>
        IF Matches = {} THEN file_path = NoPath
        ELSE file_path = listing[CHOOSE n \in Matches : \A m \in Matches : n <= m]

\* C3's case: a precomposed target found as its decomposed on-disk name
\* (the code points Python gives for the NFD form), ahead of a second entry
\* that normalizes to the same name.
C3_DecomposedWitness ==
    /\ pc = "found"
    /\ target_name = targets[1]
    /\ file_path = <<4361, 4457, 4540, 4355, 4457, 4352, 4457, 95, 4370, 4458, 4523,
                     4352, 4455, 4540, 4355, 4454, 4363, 4469, 4368, 4453,
                     46, 99, 115, 118>>
    /\ Cardinality(Matches) >= 2

\* C4 as claimed: with data/ missing, empty or holding unrelated files
\* only, neither loader raises.
C4_LoadersTotal ==
    (dirState = "absent" \/ (dirState = "dir" /\ \A n \in 1..Len(Wanted) : ~Stored(Wanted[n])))
        => pc # "raised"

\* C5 as claimed: a key that ec_conditions lacks gives the no-condition
\* sentinel at every lookup: no lookup of ec_conditions raises KeyError
\* (lines 186, 250, 288), and the overview row of such a key holds None.
C5_AbsentKeyGivesSentinel ==
    /\ ~(pc = "raised" /\ exc.type = "KeyError" /\ exc.line \in {186, 250, 288})
    /\ \A n \in 1..Len(summary_rows) :
          ~Has(ec_conditions, summary_rows[n].school) => summary_rows[n].ec_target = None

\* What load_env_data returns when data/ does not exist (line 51).
ResultDirAbsent == EmptyDict

\* The st.error messages of load_env_data among those shown.
EnvErrors == SelectSeq(errors, LAMBDA e : e.msg \in {"no_data_dir", "env_file_missing"})

\* C6 as claimed: what load_env_data returns from an existing directory
\* with none of the requested files differs from what it returns when the
\* directory does not exist.
C6_AbsentDistinguishable ==
    (EnvLoaderReturned /\ dirState = "dir" /\ StoredTargets = {})
        => env_data # ResultDirAbsent

\* C6 as amended: the two runs return the same empty mapping and differ in
\* the messages shown: one "data folder not found" message when the
\* directory does not exist, one "file missing" message per target and no
\* "data folder not found" message when it exists without the files.
C6_DistinguishedByMessages ==
    EnvLoaderReturned =>
        /\ dirState = "absent" =>
              /\ env_data = ResultDirAbsent
              /\ EnvErrors = <<[msg |-> "no_data_dir"]>>
        /\ (dirState = "dir" /\ StoredTargets = {}) =>
              /\ env_data = ResultDirAbsent
              /\ EnvErrors = [n \in 1..Len(targets) |->
                                [msg |-> "env_file_missing", t |-> targets[n]]]

\* C6's case: load_env_data returned from an existing directory that holds
\* an unrelated file only.
C6_NothingMatchedWitness ==
    /\ EnvLoaderReturned
    /\ dirState = "dir"
    /\ listing = <<Readme>>
    /\ env_data = EmptyDict
    /\ Len(EnvErrors) = Len(targets)

\* C7 as claimed: in an existing directory that lacks some target, once
\* load_env_data is over every target that resolved and parsed (the loop
\* put it into env_files) is in the result under its school key.
C7_OthersLoaded ==
    (pc \notin {"load_env", "env_loop"} /\ dirState = "dir"
        /\ StoredTargets # 1..Len(targets))
        => \A n \in 1..Len(Schools) :
              Has(env_files, Schools[n]) => Has(env_data, Schools[n])

RECURSIVE SumRows(_)
\* The sum of the row counts of the tables of a dict.
SumRows(d) == IF d = <<>> THEN 0 ELSE NRows(Head(d).v) + SumRows(Tail(d))

\* C8: the combined growth table has as many rows as the loaded tables
\* have together, and for each key as many rows with that label as the
\* table of that key has: no row is dropped or duplicated.
C8_RowCountIsSum ==
    pc = "done" =>
        /\ NRows(dist_df) = SumRows(growth_data)
        /\ \A n \in 1..Len(growth_data) :
              Cardinality({m \in 1..NRows(dist_df) :
                              dist_df.rows[m]["school"] = growth_data[n].k})
                 = NRows(growth_data[n].v)

\* C8's case: two tables of different row counts, one with equal rows,
\* combined.
C8_TwoTablesWitness ==
    /\ pc = "done"
    /\ Len(growth_data) = 2
    /\ NRows(growth_data[1].v) = 1
    /\ NRows(growth_data[2].v) = 2
    /\ NRows(dist_df) = 3

\* The keys of a dict in order, each with the column set of its table.
Shape(d) == [n \in 1..Len(d) |-> [k |-> d[n].k, cols |-> d[n].v.cols]]

\* C9: from the return of the loaders on, no step of the script changes
\* the keys of env_data or growth_data or the columns of their tables.
C9_LoadedShapeFixed ==
    [][(pc \in {"gate", "sidebar", "tab1", "tab2_avg", "tab2_series", "tab3_ec", "tab3_dist"})
         => (Shape(env_data') = Shape(env_data)
               /\ Shape(growth_data') = Shape(growth_data))]_vars

\* C9's case: the script ran to its end, the combined table has the label
\* column and no table of growth_data has it.
C9_LabelOnCopiesWitness ==
    /\ pc = "done"
    /\ Len(growth_data) >= 1
    /\ HasCol(dist_df, "school")
    /\ \A n \in 1..Len(growth_data) : ~HasCol(growth_data[n].v, "school")

\* C10 as claimed: past the emptiness gate, every school the time-series
\* loop is about to look up in env_data is a key of env_data.
C10_SeriesSchoolsLoaded ==
    pc = "tab2_series" =>
        \A n \in 1..Len(target_schools) : Has(env_data, target_schools[n])

====
